---- MODULE Spec2Model ----
(***************************************************************************)
(* Vector-Store: a KD-tree (src/kdtree.rs) behind an HTTP request layer    *)
(* that caches named trees in memory, writes them through to one file per  *)
(* name and evicts least-recently-used trees (src/src/main.rs).            *)
(*                                                                         *)
(* Option<T> is modelled as a sequence: <<>> is None, <<x>> is Some(x).    *)
(* Embeddings are sequences of integers; Rust indexes from 0, TLA+ from 1, *)
(* so embedding[axis] of the source is embedding[axis + 1] here.           *)
(* f64 distances are modelled by their squares: sqrt is strictly monotone  *)
(* on the small integers used, so every comparison of two distances, and   *)
(* every comparison of |coordinate difference| with a distance, has the    *)
(* same outcome on the squares.                                            *)
(***************************************************************************)
EXTENDS Integers, Sequences, FiniteSets, Bags, TLC

VARIABLES
    trees,      \* APPState.trees: name -> KDTreeCache, for the names in the map
    disk,       \* bin_directory: name -> the file <name>.bin
    clock,      \* the latest value Instant::now() returned
    poisoned,   \* the Mutex around trees is poisoned (a handler panicked)
    resp,       \* the last request and the response it got
    max_memory_usage, \* APPState.max_memory_usage
    inserted,   \* history: name -> bag of the points of InsertPoint requests answered 200
    mutex,      \* the handler holding the MutexGuard of APPState.trees, if any
    handlers,   \* every worker's handler: where it is and what it has in hand
    kd,         \* a KDTree exercised directly through its public methods
    q           \* the last direct query on kd and its result

vars == <<trees, disk, clock, poisoned, resp, max_memory_usage, inserted, mutex, handlers, kd, q>>
cacheVars == <<trees, disk, clock, poisoned, resp, max_memory_usage, inserted, mutex, handlers>>

----------------------------------------------------------------------------
(* Bounds of the model *)

MaxCoord == 2
MaxDim == 2
MaxPoints == 4
MaxN == 3

Coords == 0..MaxCoord

None == <<>>
Some(x) == <<x>>

Min2(a, b) == IF a < b THEN a ELSE b

----------------------------------------------------------------------------
(* src/kdtree.rs *)

\* struct Point { embedding, data }
Point(e, d) == [embedding |-> e, data |-> d]

\* Point::len
PointLen(p) == Len(p.embedding)

\* struct Node { point, left, right, axis }
Node(p, l, r, a) == [point |-> p, left |-> l, right |-> r, axis |-> a]

\* KDTree::new
KDTreeNew(k) == [root |-> None, k |-> k]

\* The result of a call that may panic.
Panic == [panic |-> TRUE]
Ok(v) == [panic |-> FALSE, val |-> v]

\* KDTree::insert_recursive. depth % k panics for k = 0; the explicit check
\* panics when the new point is too short for the axis; indexing the stored
\* point panics when that one is too short.
RECURSIVE insert_recursive(_, _, _, _)
insert_recursive(node, point, depth, k) ==
    IF k = 0 THEN Panic
    ELSE LET axis == depth % k IN
      IF node # None THEN
        LET cur == node[1] IN
        IF axis >= Len(point.embedding) THEN Panic
        ELSE IF axis >= Len(cur.point.embedding) THEN Panic
        ELSE IF point.embedding[axis + 1] < cur.point.embedding[axis + 1]
          THEN LET sub == insert_recursive(cur.left, point, depth + 1, k) IN
               IF sub.panic THEN Panic
               ELSE Ok(Some([cur EXCEPT !.left = sub.val]))
          ELSE LET sub == insert_recursive(cur.right, point, depth + 1, k) IN
               IF sub.panic THEN Panic
               ELSE Ok(Some([cur EXCEPT !.right = sub.val]))
      ELSE Ok(Some(Node(point, None, None, axis)))

\* An insert that puts the new point above the old root.
insert_above_root(tree, point) ==
    Ok([tree EXCEPT !.root = Some(Node(point, None, tree.root, 0))])

\* KDTree::insert. self.root.take() empties the root before the recursion, so
\* a panic leaves the tree with no root.
insert(tree, point) ==
    LET r == insert_recursive(tree.root, point, 0, tree.k) IN
    IF r.panic THEN [panic |-> TRUE, val |-> [tree EXCEPT !.root = None]]
    ELSE Ok([tree EXCEPT !.root = r.val])

\* euclidean_distance, squared: zip stops at the shorter vector.
RECURSIVE SumSq(_, _, _)
SumSq(a, b, i) ==
    IF i > Min2(Len(a), Len(b)) THEN 0
    ELSE (a[i] - b[i]) * (a[i] - b[i]) + SumSq(a, b, i + 1)

\* A distance that looks at the first coordinate only; the searches must not
\* behave as if they used it.
first_coordinate_distance(a, b) == (a[1] - b[1]) * (a[1] - b[1])

euclidean_distance(a, b) == SumSq(a, b, 1)

\* results.iter().map(|(d, _)| *d).fold(f64::INFINITY, f64::min) on a
\* non-empty results vector.
RECURSIVE MinDist(_, _)
MinDist(results, i) ==
    IF i = Len(results) THEN results[i][1]
    ELSE Min2(results[i][1], MinDist(results, i + 1))

\* KDTree::nearest_recursive_n: results is the vector of (distance, point)
\* pairs in visit order.
RECURSIVE nearest_recursive_n(_, _, _, _, _)
nearest_recursive_n(node, target, depth, k, results) ==
    IF node = None THEN Ok(results)
    ELSE IF k = 0 THEN Panic
    ELSE
      LET axis == depth % k
          cur == node[1]
          dist == euclidean_distance(cur.point.embedding, target.embedding)
          pushed == Append(results, <<dist, cur.point>>)
      IN
      IF axis >= Len(target.embedding) \/ axis >= Len(cur.point.embedding) THEN Panic
      ELSE
        LET tv == target.embedding[axis + 1]
            cv == cur.point.embedding[axis + 1]
            next_branch == IF tv < cv THEN cur.left ELSE cur.right
            other_branch == IF tv < cv THEN cur.right ELSE cur.left
            r1 == nearest_recursive_n(next_branch, target, depth + 1, k, pushed)
        IN
        IF r1.panic THEN Panic
        ELSE IF (tv - cv) * (tv - cv) < MinDist(r1.val, 1)
          THEN nearest_recursive_n(other_branch, target, depth + 1, k, r1.val)
          ELSE r1

\* A sort that puts an element before the earlier elements of equal distance.
RECURSIVE InsertBeforeEqual(_, _)
InsertBeforeEqual(sorted, x) ==
    IF sorted = <<>> THEN <<x>>
    ELSE IF x[1] <= sorted[1][1] THEN <<x>> \o sorted
    ELSE <<sorted[1]>> \o InsertBeforeEqual(Tail(sorted), x)

\* Vec::sort_by with partial_cmp on the distances: a stable sort.
RECURSIVE InsertSorted(_, _)
InsertSorted(sorted, x) ==
    IF sorted = <<>> THEN <<x>>
    ELSE IF x[1] < sorted[1][1] THEN <<x>> \o sorted
    ELSE <<sorted[1]>> \o InsertSorted(Tail(sorted), x)

RECURSIVE SortByDist(_)
SortByDist(s) ==
    IF s = <<>> THEN <<>>
    ELSE InsertSorted(SortByDist(SubSeq(s, 1, Len(s) - 1)), s[Len(s)])

\* KDTree::nearest_neighbors_topn: the n first points of the sorted results,
\* None when there are none.
nearest_neighbors_topn(tree, target, n) ==
    LET r == nearest_recursive_n(tree.root, target, 0, tree.k, <<>>) IN
    IF r.panic THEN Panic
    ELSE LET sorted == SortByDist(r.val)
             top == [i \in 1..Min2(n, Len(sorted)) |-> sorted[i][2]]
         IN Ok(IF top = <<>> THEN None ELSE Some(top))

\* KDTree::nearest_recursive: st is (best, best_distance); best = None stands
\* for best_distance = INFINITY.
RECURSIVE nearest_recursive(_, _, _, _, _)
nearest_recursive(node, target, depth, k, st) ==
    IF node = None THEN Ok(st)
    ELSE IF k = 0 THEN Panic
    ELSE
      LET axis == depth % k
          cur == node[1]
          dist == euclidean_distance(cur.point.embedding, target.embedding)
          st1 == IF st.best = None \/ dist < st.best_distance
                 THEN [best |-> Some(cur.point), best_distance |-> dist]
                 ELSE st
      IN
      IF axis >= Len(target.embedding) \/ axis >= Len(cur.point.embedding) THEN Panic
      ELSE
        LET tv == target.embedding[axis + 1]
            cv == cur.point.embedding[axis + 1]
            next_branch == IF tv < cv THEN cur.left ELSE cur.right
            other_branch == IF tv < cv THEN cur.right ELSE cur.left
            r1 == nearest_recursive(next_branch, target, depth + 1, k, st1)
        IN
        IF r1.panic THEN Panic
        ELSE IF r1.val.best = None
                \/ (tv - cv) * (tv - cv) < r1.val.best_distance
          THEN nearest_recursive(other_branch, target, depth + 1, k, r1.val)
          ELSE r1

\* KDTree::nearest_neighbor
nearest_neighbor(tree, target) ==
    LET r == nearest_recursive(tree.root, target, 0, tree.k,
                               [best |-> None, best_distance |-> 0]) IN
    IF r.panic THEN Panic ELSE Ok(r.val.best)

\* KDTree::count_nodes
RECURSIVE count_nodes(_)
count_nodes(node) ==
    IF node = None THEN 0
    ELSE 1 + count_nodes(node[1].left) + count_nodes(node[1].right)

\* KDTree::len
KDTreeLen(tree) == count_nodes(tree.root)

\* The stored points of a subtree, as a bag.
RECURSIVE NodePoints(_)
NodePoints(node) ==
    IF node = None THEN EmptyBag
    ELSE SetToBag({node[1].point}) (+) NodePoints(node[1].left) (+) NodePoints(node[1].right)

TreePoints(tree) == NodePoints(tree.root)

----------------------------------------------------------------------------
(* The file format: bincode of the derived Serialize of KDTree, as a sequence
   of tokens. An Option is a tag 0 or 1 followed by the value; a Vec or a
   String is its length followed by its elements; a struct is its fields in
   declaration order. The payload text is modelled by one token. *)

\* An encoding of a Point that drops the payload text.
EncodePointNoData(p) == <<Len(p.embedding)>> \o p.embedding \o <<1, 0>>

EncodePoint(p) == <<Len(p.embedding)>> \o p.embedding \o <<1, p.data>>

RECURSIVE EncodeNodeOpt(_)
EncodeNodeOpt(node) ==
    IF node = None THEN <<0>>
    ELSE <<1>> \o EncodePoint(node[1].point) \o EncodeNodeOpt(node[1].left)
              \o EncodeNodeOpt(node[1].right) \o <<node[1].axis>>

\* bincode::serialize_into(file, self)
Encode(tree) == EncodeNodeOpt(tree.root) \o <<tree.k>>

\* The deserializer reads the tokens from a position on; each step below
\* gets what was read so far and fails when the tokens run out or a tag or a
\* length is not one the format has.
ParseFail == [ok |-> FALSE]
Parsed(v, pos) == [ok |-> TRUE, val |-> v, pos |-> pos]

\* A String at pos, its length n already read: the payload is one token.
ParseData(b, e, n, pos) ==
    IF n # 1 \/ pos > Len(b) THEN ParseFail ELSE Parsed(Point(e, b[pos]), pos + 1)

\* A Vec<f64> of n elements at pos, then the String.
ParseElems(b, n, pos) ==
    IF pos + n > Len(b) THEN ParseFail
    ELSE ParseData(b, [i \in 1..n |-> b[pos + i - 1]], b[pos + n], pos + n + 1)

\* A Point at pos.
ParsePoint(b, pos) ==
    IF pos > Len(b) THEN ParseFail ELSE ParseElems(b, b[pos], pos + 1)

\* A reader that takes every axis to be 0.
ParseAxisZero(b, pt, l, r) ==
    IF ~r.ok THEN ParseFail
    ELSE IF r.pos > Len(b) THEN ParseFail
    ELSE Parsed(Some(Node(pt, l, r.val, 0)), r.pos + 1)

\* The axis of a Node whose point and subtrees are read.
ParseAxis(b, pt, l, r) ==
    IF ~r.ok THEN ParseFail
    ELSE IF r.pos > Len(b) THEN ParseFail
    ELSE Parsed(Some(Node(pt, l, r.val, b[r.pos])), r.pos + 1)

RECURSIVE ParseNodeOpt(_, _)

\* The right subtree of a Node whose point and left subtree are read.
ParseRight(b, pt, l) ==
    IF ~l.ok THEN ParseFail ELSE ParseAxis(b, pt, l.val, ParseNodeOpt(b, l.pos))

\* The left subtree of a Node whose point is read.
ParseLeft(b, pt) ==
    IF ~pt.ok THEN ParseFail ELSE ParseRight(b, pt.val, ParseNodeOpt(b, pt.pos))

\* An Option<Box<Node>> at pos.
ParseNodeOpt(b, pos) ==
    IF pos > Len(b) THEN ParseFail
    ELSE IF b[pos] = 0 THEN Parsed(None, pos + 1)
    ELSE IF b[pos] # 1 THEN ParseFail
    ELSE ParseLeft(b, ParsePoint(b, pos + 1))

\* k, after the root.
ParseK(b, r) ==
    IF ~r.ok THEN ParseFail
    ELSE IF r.pos > Len(b) THEN ParseFail
    ELSE Parsed([root |-> r.val, k |-> b[r.pos]], r.pos + 1)

\* bincode::deserialize_from(file): the root, then k; bytes after them are
\* not read.
Decode(b) == ParseK(b, ParseNodeOpt(b, 1))

\* A file of the bin directory: absent, or present with its content.
NoFile == [exists |-> FALSE, bytes |-> <<>>]
FileWith(b) == [exists |-> TRUE, bytes |-> b]

\* io::Result
Err(kind) == [ok |-> FALSE, err |-> kind]
Good(v) == [ok |-> TRUE, val |-> v]

\* An injected I/O failure of one request: op is the failing operation
\* ("none"; "load" of a file; "save", the handler's own offload_tree; "evict",
\* the nth offload_tree of manage_memory), partial whether a failing save had
\* already truncated the file and written part of it.
NoFault == [op |-> "none", nth |-> 0, partial |-> FALSE]

\* KDTree::save_to_file: File::create fails and leaves the file as it was, or
\* the write fails and leaves a truncated file, or the file holds the tree.
save_to_file(tree, file, fails, partial) ==
    IF ~fails THEN [ok |-> TRUE, file |-> FileWith(Encode(tree))]
    ELSE IF partial
      THEN [ok |-> FALSE, file |-> FileWith(SubSeq(Encode(tree), 1, Len(Encode(tree)) \div 2))]
      ELSE [ok |-> FALSE, file |-> file]

\* KDTree::load_from_file
load_from_file(file, fails) ==
    IF fails THEN Err("Other")
    ELSE LET d == Decode(file.bytes) IN
         IF d.ok THEN Good(d.val) ELSE Err("Other")

----------------------------------------------------------------------------
(* src/src/main.rs *)

SizeOfKDTree == 16
SizeOfBoxNode == 8

\* struct KDTreeCache { tree, last_accessed }
KDTreeCache(t, la) == [tree |-> t, last_accessed |-> la]

\* A load that finds no file, whatever the directory holds.
load_tree_missing(dk, tree_name, fault) == Err("NotFound")

\* load_tree
load_tree(dk, tree_name, fault) ==
    IF ~dk[tree_name].exists THEN Err("NotFound")
    ELSE load_from_file(dk[tree_name], fault.op = "load")

\* A save that reports success and writes nothing.
offload_tree_unwritten(dk, tree_name, tree, fails, partial) ==
    [ok |-> TRUE, file |-> dk[tree_name]]

\* offload_tree
offload_tree(dk, tree_name, tree, fails, partial) ==
    save_to_file(tree, dk[tree_name], fails, partial)

\* estimate_node_size: size_of_val of a &Box<Node> is the size of the Box.
RECURSIVE estimate_node_size(_)
estimate_node_size(node) ==
    SizeOfBoxNode
    + (IF node.left # None THEN estimate_node_size(node.left[1]) ELSE 0)
    + (IF node.right # None THEN estimate_node_size(node.right[1]) ELSE 0)

\* estimate_memory_usage
estimate_memory_usage(tree) ==
    SizeOfKDTree + (IF tree.root # None THEN estimate_node_size(tree.root[1]) ELSE 0)

\* The names requests use, the points they carry and the budgets the server
\* is started with.
Names == {"a", "b"}

MaxLen == 2
MaxCacheCoord == 1
MaxPayload == 1
MaxTreeSize == 2
MaxClock == 2
MaxQueryN == 1
MaxQuietClock == 3
MaxUniformClock == 4
MaxUniformTreeSize == 3
MaxEvictFault == 1

\* Embeddings of every length up to MaxLen; they differ in the first coordinate.
ReqEmbeddings ==
    {e \in UNION {[1..n -> 0..MaxCacheCoord] : n \in 0..MaxLen} : \A i \in 2..Len(e) : e[i] = 0}
ReqPoints == {Point(e, d) : e \in ReqEmbeddings, d \in 1..MaxPayload}

\* max_memory_usage is MAX_MEMORY_MB * 1024 * 1024 in main(); the model's trees
\* are a few nodes, so the budgets are scaled down to their sizes (a tree of n
\* nodes is estimated at SizeOfKDTree + n * SizeOfBoxNode). 0 is MAX_MEMORY_MB=0.
Budgets == {0, 40, 64}

\* The orders in which a HashMap over Names may iterate.
Orders == {o \in [1..Cardinality(Names) -> Names] : \A n \in Names : \E i \in DOMAIN o : o[i] = n}

\* The failures that may be injected into one request: at most one I/O
\* operation of a request fails.
Faults ==
    {NoFault, [op |-> "load", nth |-> 0, partial |-> FALSE]}
    \cup {[op |-> "save", nth |-> 0, partial |-> pt] : pt \in BOOLEAN}
    \cup {[op |-> "evict", nth |-> i, partial |-> pt] : i \in 1..MaxEvictFault, pt \in BOOLEAN}

\* cache.tree.is_some() for an entry of the map
IsResident(tr, nm) == tr[nm] # None /\ tr[nm][1].tree # None

\* manage_memory, lines 88-94: the estimates of the resident trees, summed in
\* iteration order.
RECURSIVE total_memory_usage(_, _, _)
total_memory_usage(tr, order, i) ==
    IF i > Len(order) THEN 0
    ELSE (IF IsResident(tr, order[i]) THEN estimate_memory_usage(tr[order[i]][1].tree[1]) ELSE 0)
         + total_memory_usage(tr, order, i + 1)

\* A scan that finds no candidate, and one that picks the most recently used
\* resident entry.
no_candidate(tr, order, i, lru) == None

RECURSIVE most_recently_used(_, _, _, _)
most_recently_used(tr, order, i, lru) ==
    IF i > Len(order) THEN lru
    ELSE LET key == order[i] IN
         IF IsResident(tr, key)
            /\ (lru = None \/ tr[key][1].last_accessed > tr[lru[1]][1].last_accessed)
         THEN most_recently_used(tr, order, i + 1, Some(key))
         ELSE most_recently_used(tr, order, i + 1, lru)

\* manage_memory, lines 97-108: the scan for the least recently used resident
\* entry; a later entry replaces the candidate only when strictly older.
RECURSIVE least_recently_used(_, _, _, _)
least_recently_used(tr, order, i, lru) ==
    IF i > Len(order) THEN lru
    ELSE LET key == order[i] IN
         IF IsResident(tr, key)
            /\ (lru = None \/ tr[key][1].last_accessed < tr[lru[1]][1].last_accessed)
         THEN least_recently_used(tr, order, i + 1, Some(key))
         ELSE least_recently_used(tr, order, i + 1, lru)

\* An eviction that drops the entry from the map.
remove(tr, tree_name) == [tr EXCEPT ![tree_name] = None]

\* manage_memory, line 112: cache.tree.take() on the entry found by get_mut;
\* the entry stays in the map with no tree.
take(tr, tree_name) == [tr EXCEPT ![tree_name][1].tree = None]

\* manage_memory, lines 96-120: the eviction loop. offload_tree(..).unwrap()
\* panics on a failed save, after cache.tree.take() emptied the entry.
RECURSIVE eviction_loop(_, _, _, _, _, _, _)
eviction_loop(tr, dk, total, evicted, max, order, fault) ==
    IF ~(total > max) THEN [panic |-> FALSE, trees |-> tr, disk |-> dk, evicted |-> evicted]
    ELSE LET lru == least_recently_used(tr, order, 1, None) IN
      IF lru = None THEN [panic |-> FALSE, trees |-> tr, disk |-> dk, evicted |-> evicted]
      ELSE LET tree_name == lru[1]
               tree == tr[tree_name][1].tree[1]
               taken == take(tr, tree_name)
               sv == offload_tree(dk, tree_name, tree,
                                  fault.op = "evict" /\ fault.nth = Len(evicted) + 1,
                                  fault.partial)
               dk1 == [dk EXCEPT ![tree_name] = sv.file]
               ev == [name |-> tree_name,
                      last_accessed |-> tr[tree_name][1].last_accessed,
                      size |-> estimate_memory_usage(tree)]
           IN IF ~sv.ok
              THEN [panic |-> TRUE, trees |-> taken, disk |-> dk1, evicted |-> evicted]
              ELSE eviction_loop(taken, dk1, total - estimate_memory_usage(tree),
                                 Append(evicted, ev), max, order, fault)

\* manage_memory
manage_memory(tr, dk, max, order, fault) ==
    eviction_loop(tr, dk, total_memory_usage(tr, order, 1), <<>>, max, order, fault)

\* What a handler answers: the request (its route, tree_name and the length
\* of its embedding), the HTTP status and the kind of body (the neighbours of
\* a query answered 200 are not kept), the listing of a status request; and,
\* for the record, whether manage_memory ran to its end in the request and
\* what it evicted.
Response(op, name, len, status, body) ==
    [op |-> op, name |-> name, len |-> len, status |-> status, body |-> body,
     report |-> [nm \in Names |-> None],
     mm |-> FALSE, evicted |-> <<>>]

NoResponse == Response("none", "", 0, "none", "")

\* A handler that panicked sends no response.
Panicked(op, name, len) == Response(op, name, len, "panic", "")

\* state.trees.lock().unwrap() on a poisoned Mutex panics before the handler
\* touches anything.
LockPanics(op, name, len) ==
    [trees |-> trees, disk |-> disk, clock |-> clock, poisoned |-> TRUE,
     resp |-> Panicked(op, name, len), inserted |-> inserted]

\* insert_point
insert_point(tree_name, data, now, order, fault) ==
    IF poisoned THEN LockPanics("insert", tree_name, PointLen(data))
    ELSE
    LET \* lines 132-135: entry(..).or_insert_with
        cache0 == IF trees[tree_name] = None THEN KDTreeCache(None, now)
                  ELSE trees[tree_name][1]
        \* lines 138-147: any load error creates a new tree
        ld == load_tree(disk, tree_name, fault)
        tree0 == IF cache0.tree # None THEN cache0.tree[1]
                 ELSE IF ld.ok THEN ld.val
                 ELSE KDTreeNew(PointLen(data))
        \* line 154
        ins == insert(tree0, data)
        \* line 150
        trees1 == [trees EXCEPT ![tree_name] = Some(KDTreeCache(Some(ins.val), now))]
        \* line 157
        sv == offload_tree(disk, tree_name, ins.val,
                           fault.op = "save", fault.partial)
        disk1 == [disk EXCEPT ![tree_name] = sv.file]
        \* line 162
        mm == manage_memory(trees1, disk1, max_memory_usage, order, fault)
        base == Response("insert", tree_name, PointLen(data), "", "")
    IN
    IF ins.panic THEN
        [trees |-> trees1, disk |-> disk, clock |-> now, poisoned |-> TRUE,
         resp |-> Panicked("insert", tree_name, PointLen(data)), inserted |-> inserted]
    ELSE IF ~sv.ok THEN
        [trees |-> trees1, disk |-> disk1, clock |-> now, poisoned |-> FALSE,
         resp |-> [base EXCEPT !.status = "InternalServerError",
                               !.body = "Failed to save KD-Tree"],
         inserted |-> inserted]
    ELSE IF mm.panic THEN
        [trees |-> mm.trees, disk |-> mm.disk, clock |-> now, poisoned |-> TRUE,
         resp |-> [Panicked("insert", tree_name, PointLen(data)) EXCEPT !.evicted = mm.evicted],
         inserted |-> inserted]
    ELSE
        [trees |-> mm.trees, disk |-> mm.disk, clock |-> now, poisoned |-> FALSE,
         resp |-> [base EXCEPT !.status = "Ok",
                               !.body = "Point inserted into KD-Tree and saved to disk",
                               !.mm = TRUE, !.evicted = mm.evicted],
         inserted |-> [inserted EXCEPT ![tree_name] = @ (+) SetToBag({data})]]

\* format!("Error loading tree: {}", e)
LoadErrorBody(e) ==
    IF e = "NotFound" THEN "Error loading tree: File not found"
    ELSE "Error loading tree: read or deserialize error"

\* nearest_neighbor_top_n; n is the Option<usize> of the query string.
nearest_neighbor_top_n(tree_name, data, n, now, order, fault) ==
    IF poisoned THEN LockPanics("query", tree_name, PointLen(data))
    ELSE
    LET known == trees[tree_name] # None
        ld == load_tree(disk, tree_name, fault)
        needs_load == ~known \/ trees[tree_name][1].tree = None
        \* lines 191-195: a name not in the map gets an entry before the load
        trees0 == IF known THEN trees
                  ELSE [trees EXCEPT ![tree_name] = Some(KDTreeCache(None, now))]
        \* lines 179-189 and 196-200
        tree1 == IF needs_load THEN ld.val ELSE trees[tree_name][1].tree[1]
        trees1 == [trees0 EXCEPT ![tree_name] =
                     Some(KDTreeCache(Some(tree1),
                                      IF known THEN now ELSE trees0[tree_name][1].last_accessed))]
        \* line 211
        found == nearest_neighbors_topn(tree1, data, n[1])
        \* line 218
        mm == manage_memory(trees1, disk, max_memory_usage, order, fault)
        base == Response("query", tree_name, PointLen(data), "", "")
    IN
    IF needs_load /\ ~ld.ok THEN
        [trees |-> trees0, disk |-> disk, clock |-> IF known THEN clock ELSE now,
         poisoned |-> FALSE,
         resp |-> [base EXCEPT !.status = "InternalServerError",
                               !.body = LoadErrorBody(ld.err)],
         inserted |-> inserted]
    ELSE IF n # None /\ found.panic THEN
        [trees |-> trees1, disk |-> disk, clock |-> now, poisoned |-> TRUE,
         resp |-> Panicked("query", tree_name, PointLen(data)), inserted |-> inserted]
    ELSE IF n # None /\ found.val # None THEN
        [trees |-> trees1, disk |-> disk, clock |-> now, poisoned |-> FALSE,
         resp |-> [base EXCEPT !.status = "Ok", !.body = "neighbors"],
         inserted |-> inserted]
    ELSE IF mm.panic THEN
        [trees |-> mm.trees, disk |-> mm.disk, clock |-> now, poisoned |-> TRUE,
         resp |-> [Panicked("query", tree_name, PointLen(data)) EXCEPT !.evicted = mm.evicted],
         inserted |-> inserted]
    ELSE
        [trees |-> mm.trees, disk |-> mm.disk, clock |-> now, poisoned |-> FALSE,
         resp |-> [base EXCEPT !.status = "NotFound",
                               !.body = "No nearest neighbors found or tree not found",
                               !.mm = TRUE, !.evicted = mm.evicted],
         inserted |-> inserted]

\* get_status: every entry of the map that is not resident is loaded if its
\* file loads, and stays resident; load errors are ignored.
get_status(fault) ==
    IF poisoned THEN LockPanics("status", "", 0)
    ELSE
    LET loaded(nm) == load_tree(disk, nm, IF fault.nth = 0 \/ fault.name # nm THEN NoFault ELSE fault)
        trees1 == [nm \in Names |->
                     IF trees[nm] # None /\ trees[nm][1].tree = None /\ loaded(nm).ok
                     THEN Some(KDTreeCache(Some(loaded(nm).val), trees[nm][1].last_accessed))
                     ELSE trees[nm]]
        report == [nm \in Names |->
                     IF trees1[nm] = None THEN None
                     ELSE Some([num_records |-> IF trees1[nm][1].tree = None THEN 0
                                                ELSE KDTreeLen(trees1[nm][1].tree[1]),
                                in_memory |-> trees1[nm][1].tree # None])]
    IN
    [trees |-> trees1, disk |-> disk, clock |-> clock, poisoned |-> FALSE,
     resp |-> [Response("status", "", 0, "Ok", "status") EXCEPT !.report = report],
     inserted |-> inserted]

----------------------------------------------------------------------------
(* The server: main() starts with an empty map over an empty bin directory;
   every request is one handler run under the Mutex. *)

\* The handlers that may run at once, one per worker thread, and a handler
\* that is not running: it has no request, no prediction and no response.
MaxHandlers == 2

Handlers == 1..MaxHandlers

NoRequest == [op |-> "none", name |-> "", data |-> Point(<<>>, 0), n |-> None]

Idle == [pc |-> "idle", req |-> NoRequest, snap |-> None, out |-> NoResponse]

CacheStart ==
    /\ trees = [nm \in Names |-> None]
    /\ disk = [nm \in Names |-> NoFile]
    /\ clock = 0
    /\ poisoned = FALSE
    /\ resp = NoResponse
    /\ inserted = [nm \in Names |-> EmptyBag]
    /\ mutex = None
    /\ handlers = [h \in Handlers |-> Idle]

\* No direct query was made on kd.
NoQuery == [op |-> "none", target |-> Point(<<>>, 0), n |-> 0, res |-> Ok(None)]

Init ==
    /\ CacheStart
    /\ max_memory_usage \in Budgets
    /\ kd = KDTreeNew(1)
    /\ q = NoQuery

\* Instant::now(): requests are serialized by the Mutex and each takes its
\* timestamp under it, so successive requests read strictly increasing values.
Now == clock + 1

\* The order in which the HashMap iterates. With distinct timestamps neither
\* the sum nor the scan for the oldest entry depends on it.
IterOrder == CHOOSE o \in Orders : TRUE

\* The tree a request on tree_name left in the map, if any.
TreeSizeIn(tr, tree_name) ==
    IF IsResident(tr, tree_name) THEN KDTreeLen(tr[tree_name][1].tree[1]) ELSE 0

Apply(r) ==
    /\ trees' = r.trees
    /\ disk' = r.disk
    /\ clock' = r.clock
    /\ poisoned' = r.poisoned
    /\ resp' = r.resp
    /\ inserted' = r.inserted
    /\ UNCHANGED <<max_memory_usage, mutex, handlers, kd, q>>

\* POST /insert
InsertPoint(tree_name, data, fault) ==
    Apply(insert_point(tree_name, data, Now, IterOrder, fault))

\* POST /nearesttop
QueryTopN(tree_name, data, n, fault) ==
    Apply(nearest_neighbor_top_n(tree_name, data, n, Now, IterOrder, fault))

\* GET /status; fault names the one file, if any, whose load fails.
GetStatus(fault) ==
    Apply(get_status(fault))

\* main(): the process is started again, with an empty map, over the bin
\* directory the run before left.
Restart ==
    /\ trees' = [nm \in Names |-> None]
    /\ poisoned' = FALSE
    /\ resp' = NoResponse
    /\ UNCHANGED <<disk, clock, max_memory_usage, inserted, mutex, handlers, kd, q>>

\* The bounds of a run: the clock, and the size of every tree in the map.
Bounded(maxClock, maxSize) ==
    /\ clock' <= maxClock
    /\ \A nm \in Names : TreeSizeIn(trees', nm) <= maxSize

\* A query never saves the named tree itself; a status request only loads.
QueryFaults == {f \in Faults : f.op # "save"}
StatusFaults == {NoFault} \cup {[op |-> "load", nth |-> 1, partial |-> FALSE, name |-> nm] : nm \in Names}

\* The n of a query string: absent, or a number.
QueryNs == {None} \cup {Some(i) : i \in 0..MaxQueryN}

Next ==
    \/ \E nm \in Names, p \in ReqPoints, f \in Faults :
          InsertPoint(nm, p, f) /\ Bounded(MaxClock, MaxTreeSize)
    \/ \E nm \in Names, p \in ReqPoints, n \in QueryNs, f \in QueryFaults :
          QueryTopN(nm, p, n, f) /\ Bounded(MaxClock, MaxTreeSize)
    \/ \E f \in StatusFaults : GetStatus(f)
    \/ Restart

Spec == Init /\ [][Next]_vars

\* The server when every file operation succeeds; the runs are longer.
QuietNext ==
    \/ \E nm \in Names, p \in ReqPoints :
          InsertPoint(nm, p, NoFault) /\ Bounded(MaxQuietClock, MaxTreeSize)
    \/ \E nm \in Names, p \in ReqPoints, n \in QueryNs :
          QueryTopN(nm, p, n, NoFault) /\ Bounded(MaxQuietClock, MaxTreeSize)
    \/ GetStatus(NoFault)

QuietSpec == Init /\ [][QuietNext]_vars

\* The server when every file operation succeeds and every embedding of the
\* run, inserted or queried, has one length >= 1.
UniformPoints ==
    {Point(e, d) : e \in UNION {[1..n -> 0..MaxCacheCoord] : n \in 1..MaxLen},
                   d \in 1..MaxPayload}

SameLength(p) ==
    \A nm \in Names : \A x \in BagToSet(inserted[nm]) : PointLen(x) = PointLen(p)

UniformNext ==
    \/ \E nm \in Names, p \in UniformPoints :
          SameLength(p) /\ InsertPoint(nm, p, NoFault)
                        /\ Bounded(MaxUniformClock, MaxUniformTreeSize)
    \/ \E nm \in Names, p \in UniformPoints, n \in QueryNs :
          SameLength(p) /\ QueryTopN(nm, p, n, NoFault)
                        /\ Bounded(MaxUniformClock, MaxUniformTreeSize)
    \/ GetStatus(NoFault)

UniformSpec == Init /\ [][UniformNext]_vars

\* The points of length 1.
ConcPoints == {Point(<<c>>, d) : c \in 0..MaxCacheCoord, d \in 1..MaxPayload}

\* The server when the only file operation that may fail is a save of an
\* eviction pass, and every embedding has length 1.
EvictFaults == {NoFault} \cup {f \in Faults : f.op = "evict"}

EvictFaultNext ==
    \/ \E nm \in Names, p \in ConcPoints, f \in EvictFaults :
          InsertPoint(nm, p, f) /\ Bounded(MaxQuietClock, MaxTreeSize)
    \/ \E nm \in Names, p \in ConcPoints, n \in QueryNs, f \in EvictFaults :
          QueryTopN(nm, p, n, f) /\ Bounded(MaxQuietClock, MaxTreeSize)
    \/ GetStatus(NoFault)

EvictFaultSpec == Init /\ [][EvictFaultNext]_vars

----------------------------------------------------------------------------
(* src/main.rs: the request layer that keeps its files in the working
   directory. Its load_tree, offload_tree, manage_memory, nearest_neighbor_top_n
   and get_status do what those of src/src/main.rs do, with the file named
   <tree_name>.bin; its insert_point differs. Every file operation succeeds
   and every embedding has length 1. *)

\* insert_point of src/main.rs: a name not in the map gets an entry with a new
\* tree, whatever the directory holds; an entry with no tree is loaded with
\* load_tree(tree_name).unwrap(), which panics on any load error, before
\* Instant::now() is read.
main_insert_point(tree_name, data, now, order, fault) ==
    IF poisoned THEN LockPanics("insert", tree_name, PointLen(data))
    ELSE
    LET \* lines 129-135: entry(..).or_insert_with
        cache0 == IF trees[tree_name] = None
                  THEN KDTreeCache(Some(KDTreeNew(PointLen(data))), now)
                  ELSE trees[tree_name][1]
        trees0 == [trees EXCEPT ![tree_name] = Some(cache0)]
        \* lines 138-140
        ld == load_tree(disk, tree_name, fault)
        tree0 == IF cache0.tree # None THEN cache0.tree[1] ELSE ld.val
        \* line 147
        ins == insert(tree0, data)
        \* line 143
        trees1 == [trees EXCEPT ![tree_name] = Some(KDTreeCache(Some(ins.val), now))]
        \* line 150
        sv == offload_tree(disk, tree_name, ins.val,
                           fault.op = "save", fault.partial)
        disk1 == [disk EXCEPT ![tree_name] = sv.file]
        \* line 155
        mm == manage_memory(trees1, disk1, max_memory_usage, order, fault)
        base == Response("insert", tree_name, PointLen(data), "", "")
    IN
    IF cache0.tree = None /\ ~ld.ok THEN
        [trees |-> trees0, disk |-> disk, clock |-> clock, poisoned |-> TRUE,
         resp |-> Panicked("insert", tree_name, PointLen(data)), inserted |-> inserted]
    ELSE IF ins.panic THEN
        [trees |-> trees1, disk |-> disk, clock |-> now, poisoned |-> TRUE,
         resp |-> Panicked("insert", tree_name, PointLen(data)), inserted |-> inserted]
    ELSE IF ~sv.ok THEN
        [trees |-> trees1, disk |-> disk1, clock |-> now, poisoned |-> FALSE,
         resp |-> [base EXCEPT !.status = "InternalServerError",
                               !.body = "Failed to save KD-Tree"],
         inserted |-> inserted]
    ELSE IF mm.panic THEN
        [trees |-> mm.trees, disk |-> mm.disk, clock |-> now, poisoned |-> TRUE,
         resp |-> [Panicked("insert", tree_name, PointLen(data)) EXCEPT !.evicted = mm.evicted],
         inserted |-> inserted]
    ELSE
        [trees |-> mm.trees, disk |-> mm.disk, clock |-> now, poisoned |-> FALSE,
         resp |-> [base EXCEPT !.status = "Ok",
                               !.body = "Point inserted into KD-Tree and saved to disk",
                               !.mm = TRUE, !.evicted = mm.evicted],
         inserted |-> [inserted EXCEPT ![tree_name] = @ (+) SetToBag({data})]]

\* POST /insert of src/main.rs
MainInsertPoint(tree_name, data, fault) ==
    Apply(main_insert_point(tree_name, data, Now, IterOrder, fault))

MainNext ==
    \/ \E nm \in Names, p \in ConcPoints :
          MainInsertPoint(nm, p, NoFault) /\ Bounded(MaxQuietClock, MaxTreeSize)
    \/ \E nm \in Names, p \in ConcPoints, n \in QueryNs :
          QueryTopN(nm, p, n, NoFault) /\ Bounded(MaxQuietClock, MaxTreeSize)
    \/ GetStatus(NoFault)

\* main() of src/main.rs: max_memory_usage is fixed at 1 GB, which no set of
\* trees of the model exceeds; the largest budget of the model is such a one.
MainInit ==
    /\ CacheStart
    /\ max_memory_usage = CHOOSE b \in Budgets : \A c \in Budgets : c <= b
    /\ kd = KDTreeNew(1)
    /\ q = NoQuery

MainSpec == MainInit /\ [][MainNext]_vars

----------------------------------------------------------------------------
(* The handlers running on several worker threads. Each handler takes the
   Mutex first and keeps the guard until it returns; what it does under the
   guard is split here into its steps on the shared map and directory, so
   that the steps of two handlers could interleave if the Mutex let them.
   Every file operation succeeds and every embedding has length 1. *)

MaxConcClock == 3

Requests ==
    {[op |-> "insert", name |-> nm, data |-> p, n |-> None] : nm \in Names, p \in ConcPoints}
    \cup {[op |-> "query", name |-> nm, data |-> p, n |-> n] :
             nm \in Names, p \in ConcPoints, n \in QueryNs}
    \cup {[NoRequest EXCEPT !.op = "status"]}

\* A lock that is handed out while another guard is alive.
AlwaysAvailable(m) == TRUE

\* Mutex::lock returns only while no guard is alive.
MutexAvailable(m) == m = None

\* What the whole handler of request r does when it runs alone from the
\* current state.
Alone(r) ==
    IF r.op = "insert" THEN insert_point(r.name, r.data, Now, IterOrder, NoFault)
    ELSE IF r.op = "query"
      THEN nearest_neighbor_top_n(r.name, r.data, r.n, Now, IterOrder, NoFault)
      ELSE get_status(NoFault)

At(h, pc) == handlers[h].pc = pc

Goto(h, pc) == handlers' = [handlers EXCEPT ![h].pc = pc]

Answer(h, out) == handlers' = [handlers EXCEPT ![h].pc = "return", ![h].out = out]

\* let mut trees = state.trees.lock().unwrap()
Acquire(h, r) ==
    /\ At(h, "idle")
    /\ MutexAvailable(mutex)
    /\ ~poisoned
    /\ clock < MaxConcClock
    /\ \A nm \in Names : TreeSizeIn(Alone(r).trees, nm) <= MaxTreeSize
    /\ mutex' = Some(h)
    /\ handlers' = [handlers EXCEPT ![h] =
          [pc |-> IF r.op = "status" THEN "status" ELSE "load",
           req |-> r, snap |-> Some(Alone(r)), out |-> NoResponse]]
    /\ UNCHANGED <<trees, disk, clock, poisoned, resp, max_memory_usage, inserted, kd, q>>

\* A residency step that installs a new tree whatever the entry holds.
ResidencyInsertFresh(h) ==
    /\ At(h, "load") /\ handlers[h].req.op = "insert"
    /\ trees' = [trees EXCEPT ![handlers[h].req.name] =
                    Some(KDTreeCache(Some(KDTreeNew(PointLen(handlers[h].req.data))), Now))]
    /\ Goto(h, "insert")
    /\ UNCHANGED <<disk, clock, poisoned, resp, max_memory_usage, inserted, mutex, kd, q>>

\* insert_point, lines 132-147: the entry, and its tree loaded or created
ResidencyInsert(h) ==
    /\ At(h, "load") /\ handlers[h].req.op = "insert"
    /\ LET r == handlers[h].req
           entry == IF trees[r.name] = None THEN KDTreeCache(None, Now)
                    ELSE trees[r.name][1]
           ld == load_tree(disk, r.name, NoFault)
           tree0 == IF entry.tree # None THEN entry.tree[1]
                    ELSE IF ld.ok THEN ld.val
                    ELSE KDTreeNew(PointLen(r.data))
       IN trees' = [trees EXCEPT ![r.name] =
                      Some(KDTreeCache(Some(tree0), entry.last_accessed))]
    /\ Goto(h, "insert")
    /\ UNCHANGED <<disk, clock, poisoned, resp, max_memory_usage, inserted, mutex, kd, q>>

\* insert_point, lines 150-154 and 164-166
InsertStep(h) ==
    /\ At(h, "insert")
    /\ LET r == handlers[h].req IN
       IF IsResident(trees, r.name)
       THEN /\ trees' = [trees EXCEPT ![r.name] =
                   Some(KDTreeCache(Some(insert(trees[r.name][1].tree[1], r.data).val), Now))]
            /\ clock' = Now
            /\ Goto(h, "save")
       ELSE /\ Answer(h, Response("insert", r.name, PointLen(r.data),
                                  "InternalServerError", "Failed to load or create KD-Tree"))
            /\ UNCHANGED <<trees, clock>>
    /\ UNCHANGED <<disk, poisoned, resp, max_memory_usage, inserted, mutex, kd, q>>

\* insert_point, lines 157-159
SaveStep(h) ==
    /\ At(h, "save")
    /\ LET r == handlers[h].req IN
       /\ IsResident(trees, r.name)
       /\ disk' = [disk EXCEPT ![r.name] =
              offload_tree(disk, r.name, trees[r.name][1].tree[1], FALSE, FALSE).file]
    /\ Goto(h, "evict")
    /\ UNCHANGED <<trees, clock, poisoned, resp, max_memory_usage, inserted, mutex, kd, q>>

\* nearest_neighbor_top_n, lines 178-206
ResidencyQuery(h) ==
    /\ At(h, "load") /\ handlers[h].req.op = "query"
    /\ LET r == handlers[h].req
           known == trees[r.name] # None
           needs_load == ~known \/ trees[r.name][1].tree = None
           ld == load_tree(disk, r.name, NoFault)
           trees0 == IF known THEN trees
                     ELSE [trees EXCEPT ![r.name] = Some(KDTreeCache(None, Now))]
       IN IF needs_load /\ ~ld.ok
          THEN /\ trees' = trees0
               /\ clock' = IF known THEN clock ELSE Now
               /\ Answer(h, [Response("query", r.name, PointLen(r.data),
                                      "InternalServerError", LoadErrorBody(ld.err))
                               EXCEPT !.mm = FALSE])
          ELSE /\ trees' = [trees0 EXCEPT ![r.name] =
                      Some(KDTreeCache(Some(IF needs_load THEN ld.val
                                            ELSE trees[r.name][1].tree[1]), Now))]
               /\ clock' = Now
               /\ Goto(h, "search")
    /\ UNCHANGED <<disk, poisoned, resp, max_memory_usage, inserted, mutex, kd, q>>

\* nearest_neighbor_top_n, lines 208-216
SearchStep(h) ==
    /\ At(h, "search")
    /\ LET r == handlers[h].req IN
       IF /\ IsResident(trees, r.name)
          /\ r.n # None
          /\ nearest_neighbors_topn(trees[r.name][1].tree[1], r.data, r.n[1]).val # None
       THEN Answer(h, Response("query", r.name, PointLen(r.data), "Ok", "neighbors"))
       ELSE Goto(h, "evict")
    /\ UNCHANGED <<trees, disk, clock, poisoned, resp, max_memory_usage, inserted, mutex, kd, q>>

\* manage_memory at line 162 and at line 218, and the response after it
EvictStep(h) ==
    /\ At(h, "evict")
    /\ LET r == handlers[h].req
           mm == manage_memory(trees, disk, max_memory_usage, IterOrder, NoFault)
           base == Response(r.op, r.name, PointLen(r.data), "", "")
       IN /\ trees' = mm.trees
          /\ disk' = mm.disk
          /\ Answer(h, IF r.op = "insert"
                       THEN [base EXCEPT !.status = "Ok",
                                         !.body = "Point inserted into KD-Tree and saved to disk",
                                         !.mm = TRUE, !.evicted = mm.evicted]
                       ELSE [base EXCEPT !.status = "NotFound",
                                         !.body = "No nearest neighbors found or tree not found",
                                         !.mm = TRUE, !.evicted = mm.evicted])
    /\ UNCHANGED <<clock, poisoned, resp, max_memory_usage, inserted, mutex, kd, q>>

\* get_status, lines 225-243
StatusStep(h) ==
    /\ At(h, "status")
    /\ trees' = get_status(NoFault).trees
    /\ Answer(h, get_status(NoFault).resp)
    /\ UNCHANGED <<disk, clock, poisoned, resp, max_memory_usage, inserted, mutex, kd, q>>

\* The handler returns: the guard is dropped and the response is sent.
Return(h) ==
    /\ At(h, "return")
    /\ mutex' = None
    /\ resp' = handlers[h].out
    /\ inserted' = IF handlers[h].out.op = "insert" /\ handlers[h].out.status = "Ok"
                   THEN [inserted EXCEPT ![handlers[h].req.name] =
                            @ (+) SetToBag({handlers[h].req.data})]
                   ELSE inserted
    /\ handlers' = [handlers EXCEPT ![h] = Idle]
    /\ UNCHANGED <<trees, disk, clock, poisoned, max_memory_usage, kd, q>>

ConcNext ==
    \/ \E h \in Handlers, r \in Requests : Acquire(h, r)
    \/ \E h \in Handlers : ResidencyInsert(h)
    \/ \E h \in Handlers : InsertStep(h)
    \/ \E h \in Handlers : SaveStep(h)
    \/ \E h \in Handlers : ResidencyQuery(h)
    \/ \E h \in Handlers : SearchStep(h)
    \/ \E h \in Handlers : EvictStep(h)
    \/ \E h \in Handlers : StatusStep(h)
    \/ \E h \in Handlers : Return(h)

ConcSpec == Init /\ [][ConcNext]_vars

----------------------------------------------------------------------------
(* The KD-tree exercised directly: a tree of dimensionality k built only by
   insert() from points of length k, then queried once with a target of
   length k. The searches take &self and leave the tree as it is, so a second
   query would start from the same tree. *)

\* All embeddings of length k over the model's coordinates.
Embeddings(k) == [1..k -> Coords]

TreeInit ==
    /\ \E k \in 1..MaxDim : kd = KDTreeNew(k)
    /\ q = NoQuery
    /\ CacheStart
    /\ max_memory_usage = 0

\* tree.insert(point); the payload is the insertion number, so that stored
\* points with equal embeddings stay distinguishable.
TInsert(e) ==
    /\ q = NoQuery
    /\ KDTreeLen(kd) < MaxPoints
    /\ kd' = insert(kd, Point(e, KDTreeLen(kd) + 1)).val
    /\ q' = NoQuery
    /\ UNCHANGED cacheVars

\* tree.nearest_neighbor(&target)
TNearest(e) ==
    /\ q = NoQuery
    /\ q' = [op |-> "nearest_neighbor", target |-> Point(e, 0), n |-> 0,
             res |-> nearest_neighbor(kd, Point(e, 0))]
    /\ kd' = kd
    /\ UNCHANGED cacheVars

\* tree.nearest_neighbors_topn(&target, n)
TTopN(e, n) ==
    /\ q = NoQuery
    /\ q' = [op |-> "nearest_neighbors_topn", target |-> Point(e, 0), n |-> n,
             res |-> nearest_neighbors_topn(kd, Point(e, 0), n)]
    /\ kd' = kd
    /\ UNCHANGED cacheVars

TreeNext ==
    \/ \E e \in Embeddings(kd.k) : TInsert(e)
    \/ \E e \in Embeddings(kd.k) : TNearest(e)
    \/ \E e \in Embeddings(kd.k), n \in 0..MaxN : TTopN(e, n)

TreeSpec == TreeInit /\ [][TreeNext]_vars

----------------------------------------------------------------------------
(* The KD-tree saved to and loaded from one file, a.bin, through
   save_to_file and load_from_file, with inserts and searches in between. *)

MaxFilePoints == 3

FileName == "a"

Searchable == q.op \in {"none", "load_from_file"}

FInsert(e) ==
    /\ Searchable
    /\ KDTreeLen(kd) < MaxFilePoints
    /\ kd' = insert(kd, Point(e, KDTreeLen(kd) + 1)).val
    /\ q' = NoQuery
    /\ UNCHANGED cacheVars

\* tree.save_to_file("a.bin")
FSave ==
    /\ Searchable
    /\ disk' = [disk EXCEPT ![FileName] = save_to_file(kd, disk[FileName], FALSE, FALSE).file]
    /\ q' = NoQuery
    /\ UNCHANGED <<kd, trees, clock, poisoned, resp, max_memory_usage, inserted, mutex, handlers>>

\* tree = KDTree::load_from_file("a.bin"), kept when it is Ok
FLoad ==
    /\ Searchable
    /\ disk[FileName].exists
    /\ LET l == load_from_file(disk[FileName], FALSE) IN
       /\ kd' = IF l.ok THEN l.val ELSE kd
       /\ q' = [NoQuery EXCEPT !.op = IF l.ok THEN "load_from_file" ELSE "load_failed"]
    /\ UNCHANGED cacheVars

FNearest(e) ==
    /\ Searchable
    /\ q' = [op |-> "nearest_neighbor", target |-> Point(e, 0), n |-> 0,
             res |-> nearest_neighbor(kd, Point(e, 0))]
    /\ UNCHANGED <<kd, cacheVars>>

FTopN(e, n) ==
    /\ Searchable
    /\ q' = [op |-> "nearest_neighbors_topn", target |-> Point(e, 0), n |-> n,
             res |-> nearest_neighbors_topn(kd, Point(e, 0), n)]
    /\ UNCHANGED <<kd, cacheVars>>

FileNext ==
    \/ \E e \in Embeddings(kd.k) : FInsert(e)
    \/ FSave
    \/ FLoad
    \/ \E e \in Embeddings(kd.k) : FNearest(e)
    \/ \E e \in Embeddings(kd.k), n \in 0..MaxN : FTopN(e, n)

FileSpec == TreeInit /\ [][FileNext]_vars

----------------------------------------------------------------------------
(* Brute force over the stored points, independent of the searches *)

Sq(x) == x * x

\* The true squared Euclidean distance of two embeddings of equal length.
TrueDistSq(a, b) ==
    LET S[i \in 0..Len(a)] == IF i = 0 THEN 0 ELSE S[i - 1] + Sq(a[i] - b[i])
    IN S[Len(a)]

\* The number of stored points of a subtree within squared distance v of e.
RECURSIVE CountWithin(_, _, _)
CountWithin(node, e, v) ==
    IF node = None THEN 0
    ELSE (IF TrueDistSq(node[1].point.embedding, e) <= v THEN 1 ELSE 0)
         + CountWithin(node[1].left, e, v) + CountWithin(node[1].right, e, v)

MaxDistSq == MaxDim * MaxCoord * MaxCoord

\* The i-th smallest squared distance from e to a stored point (1 <= i <= count).
KthDistSq(tree, e, i) ==
    CHOOSE v \in 0..MaxDistSq :
        /\ CountWithin(tree.root, e, v) >= i
        /\ \A w \in 0..(v - 1) : CountWithin(tree.root, e, w) < i

\* C1: nearest_neighbor never panics on a tree built by insert() from points
\* of length k and a target of length k; it returns nothing exactly when the
\* tree is empty, and otherwise a stored point whose distance to the target
\* is the minimum over all stored points.
C1_NearestIsBruteForceMin ==
    q.op = "nearest_neighbor" =>
        /\ ~q.res.panic
        /\ (q.res.val = None) <=> (kd.root = None)
        /\ q.res.val # None =>
            /\ BagIn(q.res.val[1], TreePoints(kd))
            /\ TrueDistSq(q.res.val[1].embedding, q.target.embedding)
                  = KthDistSq(kd, q.target.embedding, 1)

\* C1 witness: a full 2-D tree whose nearest point lies in the root's far-side
\* subtree, found only by crossing the root's splitting plane.
C1_Witness ==
    /\ q.op = "nearest_neighbor"
    /\ kd.k = 2
    /\ KDTreeLen(kd) = MaxPoints
    /\ ~q.res.panic /\ q.res.val # None
    /\ LET rt == kd.root[1]
           far == IF q.target.embedding[1] < rt.point.embedding[1]
                  THEN rt.right ELSE rt.left
       IN BagIn(q.res.val[1], NodePoints(far))

\* C2 (as claimed): nearest_neighbors_topn(target, n) with n >= 1 returns
\* exactly min(n, count) points, in ascending order of distance, with the
\* distances of the brute-force n nearest stored points.
C2_TopNIsBruteForceTopN ==
    (q.op = "nearest_neighbors_topn" /\ q.n >= 1) =>
        /\ ~q.res.panic
        /\ LET got == IF q.res.val = None THEN <<>> ELSE q.res.val[1]
               m == Min2(q.n, KDTreeLen(kd))
           IN /\ Len(got) = m
              /\ \A i \in 1..Len(got) :
                    /\ BagIn(got[i], TreePoints(kd))
                    /\ i <= m => TrueDistSq(got[i].embedding, q.target.embedding)
                                    = KthDistSq(kd, q.target.embedding, i)

----------------------------------------------------------------------------
(* What a name stores, as a client can observe it *)

\* The index of a name: the resident tree, else the tree its file holds.
IndexOf(tr, dk, nm) ==
    IF IsResident(tr, nm) THEN Some(tr[nm][1].tree[1])
    ELSE IF dk[nm].exists /\ Decode(dk[nm].bytes).ok THEN Some(Decode(dk[nm].bytes).val)
    ELSE None

\* The stored points of a name.
StoredPoints(tr, dk, nm) ==
    IF IndexOf(tr, dk, nm) = None THEN EmptyBag ELSE TreePoints(IndexOf(tr, dk, nm)[1])

\* The sum of estimate_memory_usage over the resident indexes.
RECURSIVE ResidentTotalOver(_, _)
ResidentTotalOver(tr, names) ==
    IF names = {} THEN 0
    ELSE LET nm == CHOOSE x \in names : TRUE IN
         (IF IsResident(tr, nm) THEN estimate_memory_usage(tr[nm][1].tree[1]) ELSE 0)
         + ResidentTotalOver(tr, names \ {nm})

ResidentTotal(tr) == ResidentTotalOver(tr, Names)

NoneResident(tr) == \A nm \in Names : ~IsResident(tr, nm)

\* The file of a name exists and does not deserialize.
Unloadable(dk, nm) == dk[nm].exists /\ ~Decode(dk[nm].bytes).ok

\* C3 (as claimed): an InsertPoint whose embedding length differs from the k
\* of the named index is answered DimensionMismatch and leaves the index,
\* resident or durable, as it was.
C3_MismatchIsRejected ==
    [][\A nm \in Names :
          (/\ resp'.op = "insert" /\ resp'.name = nm
           /\ ~poisoned
           /\ IndexOf(trees, disk, nm) # None
           /\ resp'.len # IndexOf(trees, disk, nm)[1].k)
          => /\ resp'.status = "DimensionMismatch"
             /\ IndexOf(trees', disk', nm) = IndexOf(trees, disk, nm)]_vars

\* C4: when every file operation succeeds and all embeddings have one length
\* >= 1, the stored points of every name (resident tree, else durable file)
\* are the bag of the points of the InsertPoint requests on it answered 200,
\* and a status request lists every name inserted into with that count.
C4_StoredPointsAreInsertedPoints ==
    /\ \A nm \in Names : StoredPoints(trees, disk, nm) = inserted[nm]
    /\ resp.op = "status" =>
          \A nm \in Names :
             IF resp.report[nm] = None THEN inserted[nm] = EmptyBag
             ELSE resp.report[nm][1].num_records = BagCardinality(inserted[nm])

\* C4 witness: with a budget of 0 every insert ends with the tree evicted, so
\* a name holding several points was reloaded for each insert after the
\* first; a status request then lists it with its count.
C4_Witness ==
    /\ max_memory_usage = 0
    /\ resp.op = "status"
    /\ \E nm \in Names :
          /\ BagCardinality(inserted[nm]) = MaxUniformTreeSize
          /\ resp.report[nm] # None
          /\ resp.report[nm][1].num_records = MaxUniformTreeSize
          /\ \E other \in Names \ {nm} : inserted[other] # EmptyBag

\* C5: when manage_memory has returned, the estimated total of the resident
\* trees is at most max_memory_usage, or no tree is resident.
C5_WithinBudgetOrNoneResident ==
    resp.mm => (ResidentTotal(trees) <= max_memory_usage \/ NoneResident(trees))

\* C5 witness: manage_memory evicted a tree and left another resident, within
\* a budget that is not 0.
C5_Witness ==
    /\ resp.mm
    /\ Len(resp.evicted) >= 1
    /\ ~NoneResident(trees)
    /\ ResidentTotal(trees) <= max_memory_usage

\* The estimated total before the i-th eviction of a pass that evicted ev and
\* left the total at rest.
RECURSIVE TotalBefore(_, _, _)
TotalBefore(ev, i, rest) ==
    IF i > Len(ev) THEN rest ELSE ev[i].size + TotalBefore(ev, i + 1, rest)

\* C6: one pass of manage_memory evicts in strictly increasing last_accessed
\* order, every evicted entry is older than every entry left resident, and no
\* entry is evicted once the total is within the budget.
C6_EvictionIsOldestFirst ==
    resp.mm =>
      LET ev == resp.evicted IN
      /\ \A i \in 1..(Len(ev) - 1) : ev[i].last_accessed < ev[i + 1].last_accessed
      /\ \A i \in 1..Len(ev) : \A nm \in Names :
            IsResident(trees, nm) => ev[i].last_accessed < trees[nm][1].last_accessed
      /\ \A i \in 1..Len(ev) : TotalBefore(ev, i, ResidentTotal(trees)) > max_memory_usage

\* C6 witness: one pass evicted two entries.
C6_Witness ==
    /\ resp.mm
    /\ Len(resp.evicted) = 2
    /\ resp.evicted[1].last_accessed < resp.evicted[2].last_accessed

\* C7 (as claimed): when an InsertPoint or a QueryTopN has been answered,
\* whatever the answer, the eviction policy has run: the estimated total of
\* the resident trees is within the budget or no tree is resident.
C7_EveryRequestEvicts ==
    (resp.op \in {"insert", "query"} /\ resp.status # "panic") =>
        (ResidentTotal(trees) <= max_memory_usage \/ NoneResident(trees))

\* C8 (as claimed): between requests, while the cache is usable, every
\* resident tree has a file that deserializes to that same tree, also after a
\* save that reported an error.
C8_WriteThrough ==
    \A nm \in Names :
        (~poisoned /\ IsResident(trees, nm)) =>
            /\ disk[nm].exists
            /\ Decode(disk[nm].bytes).ok
            /\ Decode(disk[nm].bytes).val = trees[nm][1].tree[1]

\* C9 (as claimed): an InsertPoint on a name that is not resident and whose
\* file exists but does not deserialize is answered with an error and leaves
\* the file as it was.
C9_UnloadableFileIsReported ==
    [][\A nm \in Names :
          (/\ resp'.op = "insert" /\ resp'.name = nm
           /\ ~poisoned
           /\ ~IsResident(trees, nm)
           /\ Unloadable(disk, nm))
          => /\ resp'.status \notin {"Ok", "panic"}
             /\ ~IsResident(trees', nm)
             /\ disk'[nm] = disk[nm]]_vars

\* C10 (as claimed): a QueryTopN on a name with no resident tree and no file
\* is answered NotFound, and a QueryTopN on a name whose file exists but does
\* not load is answered otherwise.
C10_MissingNameIsNotFound ==
    [][\A nm \in Names :
          (resp'.op = "query" /\ resp'.name = nm /\ ~poisoned /\ ~IsResident(trees, nm))
          => /\ ~disk[nm].exists => resp'.status = "NotFound"
             /\ Unloadable(disk, nm) => resp'.status \notin {"NotFound", "panic"}]_vars

----------------------------------------------------------------------------
(* The file format and the tree's shape *)

\* C11: what load_from_file reads from the file save_to_file wrote is the
\* saved tree, with the same k, points, axes and children, so both searches
\* answer every target and n on it as on the saved tree; and a load installs
\* that tree.
C11_RoundTrip ==
    [][/\ disk'[FileName] # disk[FileName] =>
            LET l == load_from_file(disk'[FileName], FALSE) IN
            /\ l.ok
            /\ l.val = kd
            /\ \A e \in Embeddings(kd.k) :
                  /\ nearest_neighbor(l.val, Point(e, 0)) = nearest_neighbor(kd, Point(e, 0))
                  /\ \A n \in 0..MaxN :
                        nearest_neighbors_topn(l.val, Point(e, 0), n)
                            = nearest_neighbors_topn(kd, Point(e, 0), n)
       /\ q'.op \in {"load_from_file", "load_failed"} =>
            /\ q'.op = "load_from_file"
            /\ Encode(kd') = disk[FileName].bytes]_vars

\* C11 witness: a full 2-D tree whose root has both children was saved and
\* loaded back.
C11_Witness ==
    /\ q.op = "load_from_file"
    /\ kd.k = 2
    /\ KDTreeLen(kd) = MaxFilePoints
    /\ kd.root[1].left # None /\ kd.root[1].right # None
    /\ disk[FileName].bytes = Encode(kd)

\* C12: at most one handler is between taking the Mutex and returning, and it
\* is the one the Mutex names; so at most one handler is loading a tree; and
\* when a handler returns, the map, the directory, the clock and the response
\* are what its whole handler, run alone from the state in which it took the
\* Mutex, produces: the handlers take effect one after another, in the order
\* in which they took the Mutex.
C12_HandlersAreSerialized ==
    [][/\ Cardinality({h \in Handlers : handlers'[h].pc # "idle"}) <= 1
       /\ Cardinality({h \in Handlers : handlers'[h].pc = "load"}) <= 1
       /\ \A h \in Handlers : handlers'[h].pc # "idle" => mutex' = Some(h)
       /\ \A h \in Handlers :
             (handlers[h].pc = "return" /\ handlers'[h].pc = "idle") =>
                LET alone == handlers[h].snap[1] IN
                /\ trees' = alone.trees
                /\ disk' = alone.disk
                /\ clock' = alone.clock
                /\ poisoned' = alone.poisoned
                /\ resp' = alone.resp
                /\ inserted' = alone.inserted]_vars

\* C12 witness: the third request of a run is about to return after its
\* eviction pass evicted a tree, while the other handler is still to run.
C12_Witness ==
    /\ clock = MaxConcClock
    /\ \E h \in Handlers :
          /\ handlers[h].pc = "return"
          /\ handlers[h].out.evicted # <<>>
          /\ mutex = Some(h)
          /\ \E g \in Handlers \ {h} : handlers[g].pc = "idle"

\* C13 (as claimed): whatever the length of its embedding, no InsertPoint and
\* no QueryTopN panics, neither the first on an index nor a later one.
C13_NoRequestPanics ==
    resp.op \in {"insert", "query"} => (resp.status # "panic" /\ ~poisoned)

\* C14 (as claimed): when nothing fails but saves of eviction passes, every
\* request is answered, the Mutex stays usable, and no point of an answered
\* insert is lost: it is in the resident tree or in a file that loads.
C14_EvictionFailureStaysLocal ==
    /\ resp.status # "panic"
    /\ ~poisoned
    /\ \A nm \in Names : inserted[nm] \sqsubseteq StoredPoints(trees, disk, nm)

\* The names a response reports as evicted.
EvictedNames(r) == {r.evicted[i].name : i \in DOMAIN r.evicted}

\* C15: with successive requests reading distinct timestamps, an InsertPoint
\* or QueryTopN on X answered 200 leaves X's last_accessed at the time the
\* request read, later than that of every other entry; no entry's
\* last_accessed decreases; and the request evicts X only if it leaves no tree
\* resident.
C15_TouchedEntryIsNewest ==
    [][/\ \A nm \in Names :
             (trees[nm] # None /\ trees'[nm] # None) =>
                 trees'[nm][1].last_accessed >= trees[nm][1].last_accessed
       /\ (resp'.op \in {"insert", "query"} /\ resp'.status = "Ok") =>
             /\ clock' = clock + 1
             /\ trees'[resp'.name] # None
             /\ trees'[resp'.name][1].last_accessed = clock'
             /\ \A nm \in Names \ {resp'.name} :
                   trees'[nm] # None =>
                       trees'[nm][1].last_accessed < trees'[resp'.name][1].last_accessed
             /\ resp'.name \in EvictedNames(resp') => NoneResident(trees')]_vars

\* C15 witness: an insert answered 200 evicted the other tree first and its
\* own tree last.
C15_Witness ==
    /\ resp.op = "insert" /\ resp.status = "Ok"
    /\ Len(resp.evicted) = 2
    /\ resp.evicted[2].name = resp.name
    /\ trees[resp.name][1].last_accessed = clock

\* C16: the residency step of a handler whose entry is resident keeps the
\* resident tree as it is and leaves the directory and every other entry
\* untouched; it changes nothing at all in insert_point and only
\* last_accessed in nearest_neighbor_top_n, so doing it again would change
\* nothing more.
C16_ResidentEntryIsKept ==
    [][\A h \in Handlers :
          (/\ handlers[h].pc = "load"
           /\ handlers'[h].pc # "load"
           /\ IsResident(trees, handlers[h].req.name)) =>
             LET nm == handlers[h].req.name IN
             /\ disk' = disk
             /\ \A other \in Names \ {nm} : trees'[other] = trees[other]
             /\ trees'[nm][1].tree = trees[nm][1].tree
             /\ handlers[h].req.op = "insert" => trees' = trees
             /\ handlers[h].req.op = "query" =>
                   /\ trees'[nm][1].last_accessed = clock'
                   /\ handlers'[h].pc = "search"]_vars

\* C16 witness: an insert_point has done its residency step on a name that
\* was inserted into before and, the budget being large, was never evicted.
C16_Witness ==
    /\ max_memory_usage = 64
    /\ \E h \in Handlers :
          /\ handlers[h].pc = "insert"
          /\ inserted[handlers[h].req.name] # EmptyBag
          /\ IsResident(trees, handlers[h].req.name)
          /\ TreePoints(trees[handlers[h].req.name][1].tree[1]) = inserted[handlers[h].req.name]

\* The names with a resident tree.
ResidentNames(tr) == {nm \in Names : IsResident(tr, nm)}

\* C17: a pass of manage_memory that returns has evicted each entry at most
\* once and only entries that were resident when it began (those resident
\* before the request, and the request's own), so it made at most that many
\* evicting iterations; it evicted only while the running total was above
\* the budget, and ended with the total within the budget or with no
\* resident entry; and the running total never fell below zero.
C17_EvictionLoopTerminates ==
    [][resp'.mm =>
          LET ev == resp'.evicted
              before == ResidentNames(trees) \cup {resp'.name}
              after == ResidentNames(trees')
              rest == ResidentTotal(trees')
          IN /\ Cardinality(EvictedNames(resp')) = Len(ev)
             /\ EvictedNames(resp') \cap after = {}
             /\ EvictedNames(resp') \cup after = before
             /\ Len(ev) <= Cardinality(before)
             /\ \A i \in 1..Len(ev) :
                   /\ TotalBefore(ev, i, rest) > max_memory_usage
                   /\ TotalBefore(ev, i, rest) - ev[i].size >= 0
                   /\ TotalBefore(ev, i, rest) - ev[i].size = TotalBefore(ev, i + 1, rest)
             /\ (rest <= max_memory_usage \/ after = {})]_vars

\* C17 witness: the pass of a query answered 404 evicted every resident tree
\* in two iterations.
C17_Witness ==
    /\ resp.op = "query" /\ resp.mm
    /\ Len(resp.evicted) = Cardinality(Names)
    /\ NoneResident(trees)

\* The number of embedding elements a subtree stores, and its payloads.
RECURSIVE EmbeddingElements(_)
EmbeddingElements(node) ==
    IF node = None THEN 0
    ELSE Len(node[1].point.embedding)
         + EmbeddingElements(node[1].left) + EmbeddingElements(node[1].right)

RECURSIVE NodePayloads(_)
NodePayloads(node) ==
    IF node = None THEN EmptyBag
    ELSE SetToBag({node[1].point.data}) (+) NodePayloads(node[1].left)
         (+) NodePayloads(node[1].right)

\* C18 (as claimed): of two resident trees with the same number of nodes and
\* the same payloads, the one storing more embedding elements has the
\* strictly larger estimate_memory_usage.
C18_EstimateCountsEmbeddings ==
    \A x \in Names, y \in Names :
        (/\ IsResident(trees, x) /\ IsResident(trees, y)
         /\ KDTreeLen(trees[x][1].tree[1]) = KDTreeLen(trees[y][1].tree[1])
         /\ NodePayloads(trees[x][1].tree[1].root) = NodePayloads(trees[y][1].tree[1].root)
         /\ EmbeddingElements(trees[x][1].tree[1].root)
               < EmbeddingElements(trees[y][1].tree[1].root))
        => estimate_memory_usage(trees[x][1].tree[1])
              < estimate_memory_usage(trees[y][1].tree[1])

\* Every node of a subtree rooted at the given depth stores depth mod k, the
\* axis insert_recursive, nearest_recursive and nearest_recursive_n compute
\* when they reach it (each passes depth + 1 to the children).
RECURSIVE AxisIsDepthModK(_, _, _)
AxisIsDepthModK(node, depth, k) ==
    IF node = None THEN TRUE
    ELSE /\ k > 0
         /\ node[1].axis = depth % k
         /\ AxisIsDepthModK(node[1].left, depth + 1, k)
         /\ AxisIsDepthModK(node[1].right, depth + 1, k)

\* The number of nodes on the longest path from the root down.
RECURSIVE Height(_)
Height(node) ==
    IF node = None THEN 0
    ELSE 1 + (IF Height(node[1].left) > Height(node[1].right)
              THEN Height(node[1].left) ELSE Height(node[1].right))

\* C19: in the index of every name, resident or read back from its file,
\* every node's axis is its depth mod k, the root being at depth 0.
C19_AxisIsDepthModK ==
    \A nm \in Names :
        IndexOf(trees, disk, nm) # None =>
            AxisIsDepthModK(IndexOf(trees, disk, nm)[1].root, 0, IndexOf(trees, disk, nm)[1].k)

\* C19 witness: with a budget of 0, so that every insert after the first
\* worked on a tree read back from its file, a 2-D index has a node at depth
\* 2, where the axis wraps around to 0.
C19_Witness ==
    /\ max_memory_usage = 0
    /\ \E nm \in Names :
          /\ IndexOf(trees, disk, nm) # None
          /\ IndexOf(trees, disk, nm)[1].k = 2
          /\ Height(IndexOf(trees, disk, nm)[1].root) = 3

\* Every point of a subtree has coordinate axis below v (less) or at least v.
RECURSIVE AllOnSide(_, _, _, _)
AllOnSide(node, axis, v, less) ==
    IF node = None THEN TRUE
    ELSE /\ IF less THEN node[1].point.embedding[axis + 1] < v
                    ELSE node[1].point.embedding[axis + 1] >= v
         /\ AllOnSide(node[1].left, axis, v, less)
         /\ AllOnSide(node[1].right, axis, v, less)

RECURSIVE Ordered(_)
Ordered(node) ==
    IF node = None THEN TRUE
    ELSE /\ AllOnSide(node[1].left, node[1].axis, node[1].point.embedding[node[1].axis + 1], TRUE)
         /\ AllOnSide(node[1].right, node[1].axis, node[1].point.embedding[node[1].axis + 1], FALSE)
         /\ Ordered(node[1].left)
         /\ Ordered(node[1].right)

\* new is old with one leaf added and nothing else changed.
RECURSIVE AddsOneLeaf(_, _)
AddsOneLeaf(old, new) ==
    IF new = None THEN FALSE
    ELSE IF old = None THEN new[1].left = None /\ new[1].right = None
    ELSE /\ new[1].point = old[1].point
         /\ new[1].axis = old[1].axis
         /\ \/ new[1].right = old[1].right /\ AddsOneLeaf(old[1].left, new[1].left)
            \/ new[1].left = old[1].left /\ AddsOneLeaf(old[1].right, new[1].right)

\* C20: a tree built by inserts of points of length k is ordered: below every
\* node, the left subtree's points are strictly less than the node's on the
\* node's axis and the right subtree's are greater or equal; and an insert
\* adds one leaf holding the new point and changes no other node.
C20_InsertKeepsOrder ==
    [][/\ Ordered(kd'.root)
       /\ kd' # kd =>
             /\ AddsOneLeaf(kd.root, kd'.root)
             /\ KDTreeLen(kd') = KDTreeLen(kd) + 1
             /\ \E e \in Embeddings(kd.k) :
                   TreePoints(kd') = TreePoints(kd) (+) SetToBag({Point(e, KDTreeLen(kd) + 1)})]_vars

\* C20 witness: a full 2-D tree of height 3 whose root has both children.
C20_Witness ==
    /\ q = NoQuery
    /\ kd.k = 2
    /\ KDTreeLen(kd) = MaxPoints
    /\ kd.root[1].left # None /\ kd.root[1].right # None
    /\ Height(kd.root) = 3

----------------------------------------------------------------------------
(* The key space of the cache and the frame of the requests *)

\* The names with an entry in the map.
CachedNames(tr) == {nm \in Names : tr[nm] # None}

\* C21: whatever a request does, evictions and failed file operations
\* included, every name in the map stays in it; an eviction leaves the entry
\* in the map with no tree and the last_accessed it had; an entry other than
\* the request's keeps its last_accessed and either keeps its tree or loses
\* it; an InsertPoint or QueryTopN that got the Mutex leaves its name in the
\* map, and no other name enters the map.
C21_NamesOnlyGrow ==
    [][resp'.op \in {"insert", "query", "status"} =>
          /\ CachedNames(trees) \subseteq CachedNames(trees')
          /\ \A i \in DOMAIN resp'.evicted :
                /\ resp'.evicted[i].name \in CachedNames(trees')
                /\ trees'[resp'.evicted[i].name][1]
                      = KDTreeCache(None, resp'.evicted[i].last_accessed)
          /\ resp'.op \in {"insert", "query"} =>
                /\ ~poisoned => resp'.name \in CachedNames(trees')
                /\ CachedNames(trees') \subseteq CachedNames(trees) \cup {resp'.name}
                /\ \A nm \in CachedNames(trees) \ {resp'.name} :
                      /\ trees'[nm][1].last_accessed = trees[nm][1].last_accessed
                      /\ trees'[nm][1].tree \in {trees[nm][1].tree, None}
          /\ resp'.op = "status" => CachedNames(trees') = CachedNames(trees)]_vars

\* C21 witness: the first insert on a name put it in the map, and its
\* eviction pass evicted the tree of the other name, whose entry is still in
\* the map with no tree.
C21_Witness ==
    /\ resp.op = "insert" /\ resp.status = "Ok"
    /\ BagCardinality(inserted[resp.name]) = 1
    /\ IsResident(trees, resp.name)
    /\ Len(resp.evicted) = 1
    /\ resp.evicted[1].name # resp.name
    /\ resp.evicted[1].name \in CachedNames(trees)
    /\ ~IsResident(trees, resp.evicted[1].name)

\* C22: on a tree built by inserts of points of length k and a target of
\* length k, nearest_neighbors_topn(target, 1) returns nothing exactly when
\* nearest_neighbor(target) returns nothing, and otherwise the one stored
\* point (embedding and payload) that nearest_neighbor returns, also when
\* several stored points are at the minimum distance.
C22_Top1IsNearest ==
    /\ (q.op = "nearest_neighbors_topn" /\ q.n = 1) =>
          LET nn == nearest_neighbor(kd, q.target) IN
          /\ ~q.res.panic /\ ~nn.panic
          /\ (q.res.val = None) <=> (nn.val = None)
          /\ nn.val # None => q.res.val[1] = <<nn.val[1]>>
    /\ q.op = "nearest_neighbor" =>
          LET top == nearest_neighbors_topn(kd, q.target, 1) IN
          /\ ~q.res.panic /\ ~top.panic
          /\ (q.res.val = None) <=> (top.val = None)
          /\ q.res.val # None => top.val[1] = <<q.res.val[1]>>

\* C22 witness: nearest_neighbors_topn(target, 1) returned one point of a
\* full tree in which a stored point with another embedding is at the same,
\* minimum, distance from the target.
C22_Witness ==
    /\ q.op = "nearest_neighbors_topn" /\ q.n = 1
    /\ KDTreeLen(kd) = MaxPoints
    /\ ~q.res.panic /\ q.res.val # None
    /\ \E p \in BagToSet(TreePoints(kd)) :
          /\ p.embedding # q.res.val[1][1].embedding
          /\ TrueDistSq(p.embedding, q.target.embedding)
                = TrueDistSq(q.res.val[1][1].embedding, q.target.embedding)

C24_InsertAfterQueryCreatesIndex ==
    [][\A nm \in Names :
          (/\ resp'.op = "insert" /\ resp'.name = nm
           /\ ~poisoned
           /\ nm \in CachedNames(trees)
           /\ ~IsResident(trees, nm)
           /\ ~disk[nm].exists)
          => /\ resp'.status = "Ok"
             /\ ~poisoned'
             /\ IndexOf(trees', disk', nm) # None
             /\ IndexOf(trees', disk', nm)[1].k = resp'.len
             /\ BagCardinality(StoredPoints(trees', disk', nm)) = 1
             /\ StoredPoints(trees', disk', nm) = inserted'[nm]]_vars

====
